---- MODULE Spec2Model ----
(***************************************************************************)
(* Model of the cinema backend of supabase/migrations/                     *)
(* 20251107170000_cinema_schema.sql: the tables movies, screenings,        *)
(* reservations, attendance_logs and profiles with their constraints,      *)
(* foreign keys and row-level policies, the view screening_stats, and the  *)
(* stored routine validate_reservation_qr.                                 *)
(*                                                                         *)
(* A client statement (insert / update / delete through the data API) is   *)
(* one autocommitted transaction and therefore one action.  A call of      *)
(* validate_reservation_qr is one transaction of several statements that   *)
(* runs at PostgreSQL's default isolation level READ COMMITTED: every      *)
(* statement reads the rows committed when it starts, the routine's own    *)
(* writes become visible to others when the call returns (commit) and are  *)
(* discarded when it raises (rollback).  Each statement of the routine is  *)
(* one action, so that statements of concurrent calls interleave.          *)
(***************************************************************************)
EXTENDS Integers, Sequences, FiniteSets, TLC

\* ---------------------------------------------------------------- bounds
MaxCalls == 2          \* calls of validate_reservation_qr in one behaviour
MaxReservations == 2   \* reservation ids (rows of reservations) in use at the same time
MaxLive == 1           \* rows of reservations at the same time under Spec
MaxLogs == 2           \* attendance_logs rows that may exist at the same time

Calls == 1..MaxCalls
ResIds == 1..MaxReservations
LogIds == 1..MaxLogs

\* ---------------------------------------------------------------- values
NullId == 0                 \* SQL NULL in a uuid column or field
NullRef == "NULL"           \* SQL NULL in a text / enum / user field
NullText == <<"NULL">>      \* SQL NULL passed as p_token

Users == {"ana", "sam"}     \* auth.users: ana is staff, sam a student
Screenings == {"s1"}        \* the screening the reservations desk books for

NullNum == -1               \* SQL NULL in a numeric or timestamp column

MovieIds == {"m1", "m2"}         \* uuids of public.movies rows
ScreeningIds == {"s1", "s2"}     \* uuids of public.screenings rows

\* EMPTY_SCREENING.capacity: the capacity the screening form proposes
FormCapacity == 50

\* the capacities, start times and end times a statement may carry
CapacityInputs == 0..3
StartInputs == {1, 2}
EndInputs == {NullNum, 1, 2}

\* the row type of public.screenings
ScreeningRow(id, mid, cap, st, en) ==
  [id |-> id, movie_id |-> mid, capacity |-> cap, starts_at |-> st, ends_at |-> en]

\* public.profiles.role: text not null default 'student'
Roles == {"admin", "student"}

\* public.reservation_status
reservation_status == {"pending", "confirmed", "cancelled", "checked_in", "no_show"}

\* encode(gen_random_bytes(8), 'hex'): a token no other row has.  The model
\* derives it from the (fresh) id of the row that receives it.
TokenChars == <<"a", "b", "c", "d">>

GenToken(id) == <<TokenChars[id]>>

\* the texts a caller may pass as p_token: NULL, the empty text, a blank
\* text, the token of a reservation, and such a token with a leading blank
TokenInputs ==
  {NullText, <<>>, <<" ">>} \cup {GenToken(i) : i \in ResIds} \cup {<<" ">> \o GenToken(1)}

ScannerInputs == {NullRef, "ana"}

\* ---------------------------------------------------------------- state
VARIABLES
  movies,            \* public.movies, committed rows
  screenings,        \* public.screenings, committed rows
  profiles,          \* public.profiles: user_id -> role (NullRef: no row)
  reservations,      \* public.reservations, committed rows
  attendance_logs,   \* public.attendance_logs, committed rows
  calls,             \* the calls of validate_reservation_qr
  hook,              \* the lists and the last result of one session's data hooks
  page,              \* AttendancePage of one session: its state, its last render,
                     \* its pending calls and the clock
  validated          \* history: ids of the reservations a call has checked in and
                     \* no client statement has written (row or log) since
\* The fields follows, fresh and after_valid of a call are history too: the
\* routine never reads them.

vars == <<movies, screenings, profiles, reservations, attendance_logs, calls, validated,
          hook, page>>

\* ------------------------------------------------------- pure operators
\* trim(text): strips blanks from both ends; NULL stays NULL
RECURSIVE LTrim(_)
LTrim(s) == IF s # <<>> /\ Head(s) = " " THEN LTrim(Tail(s)) ELSE s

RECURSIVE RTrim(_)
RTrim(s) == IF s # <<>> /\ s[Len(s)] = " " THEN RTrim(SubSeq(s, 1, Len(s) - 1)) ELSE s

Trim(s) == IF s = NullText THEN NullText ELSE RTrim(LTrim(s))

Coalesce(x, d) == IF x = NullText THEN d ELSE x

\* mutant: the token is not trimmed
TokenIsBlank_NoTrim(p_token) == Coalesce(p_token, <<>>) = <<>>

\* coalesce(trim(p_token), '') = ''
TokenIsBlank(p_token) == Coalesce(Trim(p_token), <<>>) = <<>>

\* mutant: any profile row counts, whatever its role
current_user_is_admin_AnyProfile(u) == profiles[u] # NullRef

\* public.current_user_is_admin() for auth.uid() = u
current_user_is_admin(u) == profiles[u] = "admin"

\* the row type of public.reservations and the value of an unset row variable
NoRow == [id |-> NullId, screening_id |-> NullRef, user_id |-> NullRef,
          status |-> NullRef, seat_label |-> NullRef, qr_token |-> NullText]

NoLog == [id |-> NullId, reservation_id |-> NullId, scanned_by |-> NullRef]

\* public.qr_validation_result
Result(rid, sid, st, msg, scanned, valid) ==
  [reservation_id |-> rid, screening_id |-> sid, status |-> st,
   message |-> msg, already_scanned |-> scanned, is_valid |-> valid]

NoResult == Result(NullId, NullRef, NullRef, "", FALSE, FALSE)

MsgUnauthorized == "Solo personal autorizado puede validar codigos."
MsgInvalidCode == "Codigo QR invalido."
MsgNotFound == "No se encontro una reserva para este codigo."
MsgCancelled == "La reserva esta cancelada y no puede registrarse asistencia."
MsgAlreadyValidated == "Esta reserva ya fue validada previamente."
MsgRegistered == "Asistencia registrada correctamente."

IdleCall == [pc |-> "idle", caller |-> NullRef, p_token |-> NullText,
             p_scanner |-> NullRef, v_reservation |-> NoRow,
             v_result |-> NoResult, tx_log |-> NoLog, tx_status |-> FALSE,
             error |-> "", follows |-> NullId, fresh |-> NullId,
             after_valid |-> FALSE]

\* the value of a hook's result before any operation: { data, error }
NoHookResult == [op |-> "none", data |-> {}, error |-> NullRef]

\* useState([]) of a hook: its table, its user, its list, its last result
IdleHook == [table |-> NullRef, user |-> NullRef, list |-> {}, result |-> NoHookResult]

\* now - lastScanTime < 4000
DedupeWindow == 4000

\* useState(false), useState(null), useState(0) of AttendancePage
PageState == [processing |-> FALSE, lastToken |-> NullText, lastScanTime |-> 0]

\* the page after its first render, nothing scanned; Date.now() is far more
\* than the window after the 0 of lastScanTime
IdlePage == [state |-> PageState, rendered |-> PageState, inflight |-> {},
             now |-> DedupeWindow, sent |-> 0, repeats |-> 0]

\* ------------------------------------------------------- table helpers
RowsById(id) == {r \in reservations : r.id = id}

RowsByToken(tok) == {r \in reservations : r.qr_token = tok}

LogsOf(rid) == {l \in attendance_logs : l.reservation_id = rid}

\* a call is inside its transaction
InFlight(c) == calls[c].pc \notin {"idle", "returned", "raised"}

\* ids a running call still refers to
HeldResIds == {calls[c].v_reservation.id : c \in {d \in Calls : InFlight(d)}}

HeldLogIds == {calls[c].tx_log.id : c \in {d \in Calls : InFlight(d)}}

\* gen_random_uuid(): an id that no row and no running call refers to
FreeResIds == ResIds \ ({r.id : r \in reservations} \cup HeldResIds)

FreeLogIds == LogIds \ ({l.id : l \in attendance_logs} \cup HeldLogIds)

Min(S) == CHOOSE x \in S : \A y \in S : x <= y

\* an uncommitted attendance_logs row of another transaction with this key:
\* an insert of the same key waits for that transaction to end
PendingLogFor(rid, self) ==
  \E d \in Calls : d # self /\ InFlight(d) /\ calls[d].tx_log.reservation_id = rid

\* row locks held by running calls: FOR KEY SHARE (taken by the foreign key
\* check of the log insert) and FOR NO KEY UPDATE (taken by the status update)
KeyShareLocked(rid) ==
  \E d \in Calls : InFlight(d) /\ calls[d].tx_log.reservation_id = rid

UpdateLocked(rid) ==
  \E d \in Calls : InFlight(d) /\ calls[d].tx_status /\ calls[d].v_reservation.id = rid

\* ------------------------------------- validate_reservation_qr(p_token, p_scanner)
Finish(c, res) ==
  [calls[c] EXCEPT !.pc = "returned", !.v_result = res, !.v_reservation = NoRow,
                   !.tx_log = NoLog, !.tx_status = FALSE]

\* raise: the transaction is rolled back, the caller gets the SQLSTATE
Raise(c, sqlstate) ==
  [calls[c] EXCEPT !.pc = "raised", !.error = sqlstate, !.v_reservation = NoRow,
                   !.tx_log = NoLog, !.tx_status = FALSE]

\* history: the checked-in reservation a call with this token comes after
Following(tok) ==
  LET ids == {r.id : r \in RowsByToken(tok)} \cap validated
  IN IF ids = {} THEN NullId ELSE Min(ids)

\* history: the reservation with this token when admin u can check it in
\* (it is not cancelled and has no log, committed or about to be)
FreshFor(u, tok) ==
  LET ids == {r.id : r \in {x \in RowsByToken(tok) :
                 /\ x.status # "cancelled"
                 /\ LogsOf(x.id) = {}
                 /\ ~PendingLogFor(x.id, 0)}}
  IN IF current_user_is_admin(u) /\ ids # {} THEN Min(ids) ELSE NullId

\* history: a call with this token has returned is_valid = true before
AfterValid(tok) ==
  \E d \in Calls : /\ calls[d].pc = "returned"
                   /\ calls[d].v_result.is_valid
                   /\ calls[d].p_token = tok

\* history: the running calls forget the reservations ids, which another
\* transaction has written
Disturb(cs, ids) ==
  [c \in Calls |->
     IF c \in cs /\ InFlight(c)
       THEN [calls[c] EXCEPT
               !.follows = IF calls[c].follows \in ids THEN NullId ELSE @,
               !.fresh = IF calls[c].fresh \in ids THEN NullId ELSE @]
     ELSE calls[c]]

\* history: a client statement writes the rows or logs of the reservations ids
Touch(ids) ==
  /\ validated' = validated \ ids
  /\ calls' = Disturb(Calls, ids)

\* mutant: the shape of the token is checked before the authorization
EntryGuards_TokenFirst(c, u, tok, sc) ==
  LET started == [IdleCall EXCEPT !.caller = u, !.p_token = tok, !.p_scanner = sc,
                                  !.follows = Following(tok), !.fresh = FreshFor(u, tok),
                                  !.after_valid = AfterValid(tok)]
  IN IF TokenIsBlank(tok)
       THEN [started EXCEPT !.pc = "returned",
               !.v_result = Result(NullId, NullRef, "cancelled", MsgInvalidCode, FALSE, FALSE)]
     ELSE IF ~current_user_is_admin(u)
       THEN [started EXCEPT !.pc = "returned",
               !.v_result = Result(NullId, NullRef, "cancelled", MsgUnauthorized, FALSE, FALSE)]
     ELSE [started EXCEPT !.pc = "select_reservation"]

\* the guards that need no table: authorization, then the shape of the token
EntryGuards(c, u, tok, sc) ==
  LET started == [IdleCall EXCEPT !.caller = u, !.p_token = tok, !.p_scanner = sc,
                                  !.follows = Following(tok), !.fresh = FreshFor(u, tok),
                                  !.after_valid = AfterValid(tok)]
  IN IF ~current_user_is_admin(u)
       THEN [started EXCEPT !.pc = "returned",
               !.v_result = Result(NullId, NullRef, "cancelled", MsgUnauthorized, FALSE, FALSE)]
     ELSE IF TokenIsBlank(tok)
       THEN [started EXCEPT !.pc = "returned",
               !.v_result = Result(NullId, NullRef, "cancelled", MsgInvalidCode, FALSE, FALSE)]
     ELSE [started EXCEPT !.pc = "select_reservation"]

\* user u calls the routine
Call(c, u, tok, sc) ==
  /\ calls[c].pc = "idle"
  /\ \A d \in Calls : d < c => calls[d].pc # "idle"
  /\ calls' = [calls EXCEPT ![c] = EntryGuards(c, u, tok, sc)]
  /\ UNCHANGED <<hook, page, movies, screenings, profiles, reservations, attendance_logs, validated>>

\* mutant: the lookup compares the trimmed texts
LookupRows_Trimmed(tok) == {r \in reservations : Trim(r.qr_token) = Trim(tok)}

\* select * into v_reservation ... where qr_token = p_token
LookupRows(tok) == RowsByToken(tok)

\* if not found ...; if v_reservation.status = 'cancelled' ...
AfterLookup(c, rows) ==
  IF rows = {}
    THEN Finish(c, Result(NullId, NullRef, "cancelled", MsgNotFound, FALSE, FALSE))
  ELSE LET row == CHOOSE r \in rows : TRUE
       IN IF row.status = "cancelled"
            THEN Finish(c, Result(row.id, row.screening_id, row.status, MsgCancelled, FALSE, FALSE))
          ELSE [calls[c] EXCEPT !.pc = "check_log", !.v_reservation = row]

SelectReservation(c) ==
  /\ calls[c].pc = "select_reservation"
  /\ calls' = [calls EXCEPT ![c] = AfterLookup(c, LookupRows(calls[c].p_token))]
  /\ UNCHANGED <<hook, page, movies, screenings, profiles, reservations, attendance_logs, validated>>

\* mutant: the duplicate check never finds a log
AfterLogCheck_NeverFound(c, found) == [calls[c] EXCEPT !.pc = "insert_log"]

\* if exists (select 1 from attendance_logs where reservation_id = v_reservation.id)
AfterLogCheck(c, found) ==
  LET v == calls[c].v_reservation
  IN IF found
       THEN Finish(c, Result(v.id, v.screening_id, v.status, MsgAlreadyValidated, TRUE, FALSE))
     ELSE [calls[c] EXCEPT !.pc = "insert_log"]

CheckLog(c) ==
  /\ calls[c].pc = "check_log"
  /\ calls' = [calls EXCEPT ![c] = AfterLogCheck(c, LogsOf(calls[c].v_reservation.id) # {})]
  /\ UNCHANGED <<hook, page, movies, screenings, profiles, reservations, attendance_logs, validated>>

\* mutant: the index on attendance_logs (reservation_id) is not unique
LogKeyTaken_NotUnique(rid) == FALSE

\* unique index attendance_logs_reservation_id_unique, against committed rows
LogKeyTaken(rid) == LogsOf(rid) # {}

\* mutant: the log records the caller instead of p_scanner
NewLog_ScannedByCaller(c) ==
  [id |-> Min(FreeLogIds), reservation_id |-> calls[c].v_reservation.id,
   scanned_by |-> calls[c].caller]

\* the row (reservation_id, scanned_by) values (v_reservation.id, p_scanner)
NewLog(c) ==
  [id |-> Min(FreeLogIds), reservation_id |-> calls[c].v_reservation.id,
   scanned_by |-> calls[c].p_scanner]

\* insert into attendance_logs (reservation_id, scanned_by) values (v_reservation.id, p_scanner)
InsertLog(c) ==
  LET v == calls[c].v_reservation
  IN /\ calls[c].pc = "insert_log"
     /\ ~PendingLogFor(v.id, c)
     /\ FreeLogIds # {}
     /\ calls' = [calls EXCEPT ![c] =
          IF LogKeyTaken(v.id) THEN Raise(c, "23505")
          ELSE IF RowsById(v.id) = {} THEN Raise(c, "23503")
          ELSE [calls[c] EXCEPT !.pc = "update_status", !.tx_log = NewLog(c)]]
     /\ UNCHANGED <<hook, page, movies, screenings, profiles, reservations, attendance_logs, validated>>

\* update reservations set status = 'checked_in', updated_at = now() where id = v_reservation.id
UpdateStatus(c) ==
  /\ calls[c].pc = "update_status"
  /\ ~\E d \in Calls : d # c /\ InFlight(d) /\ calls[d].tx_status
                         /\ calls[d].v_reservation.id = calls[c].v_reservation.id
  /\ calls' = [calls EXCEPT ![c] = [calls[c] EXCEPT !.pc = "reread", !.tx_status = TRUE]]
  /\ UNCHANGED <<hook, page, movies, screenings, profiles, reservations, attendance_logs, validated>>

\* mutant: the status update is not part of what the call commits
OwnView_StatusNotApplied(c) == reservations

\* the rows of reservations as the call's own statements see them
OwnView(c) ==
  {IF calls[c].tx_status /\ r.id = calls[c].v_reservation.id
     THEN [r EXCEPT !.status = "checked_in"] ELSE r : r \in reservations}

\* mutant: the path that writes reports is_valid = false
ReturnRegistered_ReportsInvalid(c) ==
  LET rows == {r \in OwnView(c) : r.id = calls[c].v_reservation.id}
      row == IF rows = {} THEN NoRow ELSE CHOOSE r \in rows : TRUE
  IN /\ calls[c].pc = "reread"
     /\ calls' = [Disturb(Calls \ {c}, {calls[c].v_reservation.id}) EXCEPT ![c] =
          Finish(c, Result(row.id, row.screening_id, row.status, MsgRegistered, FALSE, FALSE))]
     /\ reservations' = OwnView(c)
     /\ attendance_logs' = attendance_logs \cup {calls[c].tx_log}
     /\ validated' = validated \cup {r.id : r \in rows}
     /\ UNCHANGED <<hook, page, movies, screenings, profiles>>

\* select * into v_reservation ... where id = v_reservation.id; the result;
\* return, which commits the transaction
ReturnRegistered(c) ==
  LET rows == {r \in OwnView(c) : r.id = calls[c].v_reservation.id}
      row == IF rows = {} THEN NoRow ELSE CHOOSE r \in rows : TRUE
  IN /\ calls[c].pc = "reread"
     /\ calls' = [Disturb(Calls \ {c}, {calls[c].v_reservation.id}) EXCEPT ![c] =
          Finish(c, Result(row.id, row.screening_id, row.status, MsgRegistered, FALSE, TRUE))]
     /\ reservations' = OwnView(c)
     /\ attendance_logs' = attendance_logs \cup {calls[c].tx_log}
     /\ validated' = validated \cup {r.id : r \in rows}
     /\ UNCHANGED <<hook, page, movies, screenings, profiles>>

\* ------------------------------------------------ row-level security policies
\* mutant: the policies for users do not compare user_id with auth.uid()
MayWriteReservation_AnyOwner(actor, user_id) == actor \in Users

\* "admins can ... reservations" or "users can ... own reservations"
MayWriteReservation(actor, user_id) == current_user_is_admin(actor) \/ user_id = actor

\* "admins can ... attendance logs"
MayWriteLog(actor) == current_user_is_admin(actor)

\* ------------------------------------------------ constraints of reservations
\* mutant: no unique constraint on (screening_id, user_id)
PairTaken_NotUnique(sid, uid, self) == FALSE

\* constraint reservations_user_screening_unique: a row other than self has the pair
PairTaken(sid, uid, self) ==
  \E r \in reservations : r.id # self /\ r.screening_id = sid /\ r.user_id = uid

\* mutant: no unique constraint on qr_token
TokenTaken_NotUnique(tok, self) == FALSE

\* constraint reservations_qr_token_unique: a row other than self has the token
TokenTaken(tok, self) ==
  \E r \in reservations : r.id # self /\ r.qr_token = tok

\* ------------------------------------------------ client statements
\* insert into reservations (screening_id, user_id, status, seat_label)
InsertReservationStmt(actor, sid, uid, st, seat) ==
  /\ MayWriteReservation(actor, uid)
  /\ \E s \in screenings : s.id = sid
  /\ FreeResIds # {}
  /\ LET id == Min(FreeResIds)
     IN /\ ~PairTaken(sid, uid, id)
        /\ ~TokenTaken(GenToken(id), id)
        /\ reservations' = reservations \cup
             {[id |-> id, screening_id |-> sid, user_id |-> uid, status |-> st,
               seat_label |-> seat, qr_token |-> GenToken(id)]}
        /\ Touch({id})
  /\ UNCHANGED <<movies, screenings, profiles, attendance_logs>>

InsertReservation(actor, sid, uid, st) == InsertReservationStmt(actor, sid, uid, st, NullRef) /\ UNCHANGED <<hook, page>>

\* update reservations set <the columns of payload> where id = id
UpdateReservationStmt(actor, id, payload) ==
  /\ ~UpdateLocked(id)
  /\ \E r \in RowsById(id) :
       /\ MayWriteReservation(actor, r.user_id)
       /\ reservations' = (reservations \ {r}) \cup
            {[r EXCEPT !.status = IF "status" \in DOMAIN payload THEN payload.status ELSE @,
                       !.seat_label = IF "seat_label" \in DOMAIN payload
                                        THEN payload.seat_label ELSE @]}
  /\ Touch({id})
  /\ UNCHANGED <<movies, screenings, profiles, attendance_logs>>

UpdateReservation(actor, id, st) == UpdateReservationStmt(actor, id, [status |-> st]) /\ UNCHANGED <<hook, page>>

\* delete from reservations where id = id; attendance_logs rows go with it
DeleteReservationStmt(actor, id) ==
  /\ ~KeyShareLocked(id)
  /\ ~UpdateLocked(id)
  /\ \E r \in RowsById(id) :
       /\ MayWriteReservation(actor, r.user_id)
       /\ reservations' = reservations \ {r}
       /\ attendance_logs' = attendance_logs \ LogsOf(id)
  /\ Touch({id})
  /\ UNCHANGED <<movies, screenings, profiles>>

DeleteReservation(actor, id) == DeleteReservationStmt(actor, id) /\ UNCHANGED <<hook, page>>

\* insert into attendance_logs (reservation_id, scanned_by)
InsertAttendanceLogStmt(actor, rid, sb) ==
  /\ MayWriteLog(actor)
  /\ RowsById(rid) # {}
  /\ ~PendingLogFor(rid, 0)
  /\ ~LogKeyTaken(rid)
  /\ FreeLogIds # {}
  /\ attendance_logs' = attendance_logs \cup
       {[id |-> Min(FreeLogIds), reservation_id |-> rid, scanned_by |-> sb]}
  /\ Touch({rid})
  /\ UNCHANGED <<movies, screenings, profiles, reservations>>

InsertAttendanceLog(actor, rid, sb) == InsertAttendanceLogStmt(actor, rid, sb) /\ UNCHANGED <<hook, page>>

\* update attendance_logs set reservation_id = rid, scanned_by = sb where id = id
UpdateAttendanceLogStmt(actor, id, rid, sb) ==
  /\ MayWriteLog(actor)
  /\ RowsById(rid) # {}
  /\ \E l \in attendance_logs :
       /\ l.id = id
       /\ l.reservation_id = rid \/ (~PendingLogFor(rid, 0) /\ ~LogKeyTaken(rid))
       /\ attendance_logs' = (attendance_logs \ {l}) \cup
            {[l EXCEPT !.reservation_id = rid, !.scanned_by = sb]}
       /\ Touch({l.reservation_id, rid})
  /\ UNCHANGED <<movies, screenings, profiles, reservations>>

UpdateAttendanceLog(actor, id, rid, sb) == UpdateAttendanceLogStmt(actor, id, rid, sb) /\ UNCHANGED <<hook, page>>

\* delete from attendance_logs where id = id
DeleteAttendanceLogStmt(actor, id) ==
  /\ MayWriteLog(actor)
  /\ \E l \in attendance_logs :
       /\ l.id = id
       /\ attendance_logs' = attendance_logs \ {l}
       /\ Touch({l.reservation_id})
  /\ UNCHANGED <<movies, screenings, profiles, reservations>>

DeleteAttendanceLog(actor, id) == DeleteAttendanceLogStmt(actor, id) /\ UNCHANGED <<hook, page>>

\* update reservations set user_id = uid, qr_token = tok where id = id: the
\* statement the update policies admit beyond the hook's status edit
UpdateReservationColumns(actor, id, uid, tok) ==
  /\ ~KeyShareLocked(id)
  /\ ~UpdateLocked(id)
  /\ \E r \in RowsById(id) :
       /\ MayWriteReservation(actor, r.user_id)
       /\ MayWriteReservation(actor, uid)
       /\ ~PairTaken(r.screening_id, uid, id)
       /\ ~TokenTaken(tok, id)
       /\ reservations' = (reservations \ {r}) \cup {[r EXCEPT !.user_id = uid, !.qr_token = tok]}
  /\ Touch({id})
  /\ UNCHANGED <<hook, page, movies, screenings, profiles, attendance_logs>>

\* "admins can read reservations" or "users can read own reservations": the
\* rows a select returns to actor
VisibleReservations(actor) == {r \in reservations : MayWriteReservation(actor, r.user_id)}

\* "admins can read attendance logs"
VisibleLogs(actor) == IF MayWriteLog(actor) THEN attendance_logs ELSE {}

\* ------------------------------------------------ movies, screenings, profiles
\* mutant: the catalog policies admit every authenticated user
MayWriteCatalog_Authenticated(actor) == actor \in Users

\* "admins can ... movies", "admins can ... screenings"
MayWriteCatalog(actor) == current_user_is_admin(actor)

\* row level security is enabled on public.profiles and the four policies for
\* admins are its only policies
ProfilesRowSecurity == TRUE

\* "admins can ... profiles"
MayWriteProfiles(actor) == ProfilesRowSecurity => current_user_is_admin(actor)

VisibleMovies(actor) == IF MayWriteCatalog(actor) THEN movies ELSE {}

VisibleScreenings(actor) == IF MayWriteCatalog(actor) THEN screenings ELSE {}

VisibleProfiles(actor) ==
  IF MayWriteProfiles(actor) THEN {u \in Users : profiles[u] # NullRef} ELSE {}

\* gen_random_uuid() for movies and screenings
FreeMovieIds == MovieIds \ {m.id : m \in movies}

FreeScreeningIds == ScreeningIds \ {s.id : s \in screenings}

\* mutant: screenings.movie_id without on delete cascade
ScreeningsOf_NoCascade(mids) == {}

\* the rows that reference the rows deleted: on delete cascade
ScreeningsOf(mids) == {s \in screenings : s.movie_id \in mids}

ReservationsOf(sids) == {r \in reservations : r.screening_id \in sids}

LogsOfAll(rids) == {l \in attendance_logs : l.reservation_id \in rids}

\* delete these screenings and everything that references them
CascadeDelete(ss) ==
  LET rids == {r.id : r \in ReservationsOf({s.id : s \in ss})}
  IN /\ \A rid \in rids : ~KeyShareLocked(rid) /\ ~UpdateLocked(rid)
     /\ screenings' = screenings \ ss
     /\ reservations' = reservations \ ReservationsOf({s.id : s \in ss})
     /\ attendance_logs' = attendance_logs \ LogsOfAll(rids)
     /\ Touch(rids)

\* insert into movies (...)
InsertMovieStmt(actor, active) ==
  /\ MayWriteCatalog(actor)
  /\ FreeMovieIds # {}
  /\ movies' = movies \cup {[id |-> CHOOSE id \in FreeMovieIds : TRUE, is_active |-> active]}
  /\ UNCHANGED <<screenings, profiles, reservations, attendance_logs, calls, validated>>

InsertMovie(actor, active) == InsertMovieStmt(actor, active) /\ UNCHANGED <<hook, page>>

\* update movies set is_active = active where id = id
UpdateMovieStmt(actor, id, active) ==
  /\ MayWriteCatalog(actor)
  /\ \E m \in movies :
       /\ m.id = id
       /\ movies' = (movies \ {m}) \cup {[m EXCEPT !.is_active = active]}
  /\ UNCHANGED <<screenings, profiles, reservations, attendance_logs, calls, validated>>

UpdateMovie(actor, id, active) == UpdateMovieStmt(actor, id, active) /\ UNCHANGED <<hook, page>>

\* delete from movies where id = id
DeleteMovieStmt(actor, id) ==
  /\ MayWriteCatalog(actor)
  /\ \E m \in movies :
       /\ m.id = id
       /\ movies' = movies \ {m}
  /\ CascadeDelete(ScreeningsOf({id}))
  /\ UNCHANGED profiles

DeleteMovie(actor, id) == DeleteMovieStmt(actor, id) /\ UNCHANGED <<hook, page>>

\* mutant: the table has no check constraints
ScreeningChecks_None(cap, st, en) == TRUE

\* check (capacity > 0) and
\* constraint screenings_time_range check (ends_at is null or ends_at > starts_at)
ScreeningChecks(cap, st, en) == cap > 0 /\ (en = NullNum \/ en > st)

\* insert into screenings (movie_id, starts_at, ends_at, capacity, ...)
InsertScreeningStmt(actor, mid, cap, st, en) ==
  /\ MayWriteCatalog(actor)
  /\ \E m \in movies : m.id = mid
  /\ ScreeningChecks(cap, st, en)
  /\ FreeScreeningIds # {}
  /\ screenings' = screenings \cup
       {ScreeningRow(CHOOSE id \in FreeScreeningIds : TRUE, mid, cap, st, en)}
  /\ UNCHANGED <<movies, profiles, reservations, attendance_logs, calls, validated>>

InsertScreening(actor, mid, cap, st, en) == InsertScreeningStmt(actor, mid, cap, st, en) /\ UNCHANGED <<hook, page>>

\* update screenings set movie_id = mid, starts_at = st, ends_at = en,
\* capacity = cap where id = id
UpdateScreeningStmt(actor, id, mid, cap, st, en) ==
  /\ MayWriteCatalog(actor)
  /\ \E m \in movies : m.id = mid
  /\ ScreeningChecks(cap, st, en)
  /\ \E s \in screenings :
       /\ s.id = id
       /\ screenings' = (screenings \ {s}) \cup {ScreeningRow(id, mid, cap, st, en)}
  /\ UNCHANGED <<movies, profiles, reservations, attendance_logs, calls, validated>>

UpdateScreening(actor, id, mid, cap, st, en) == UpdateScreeningStmt(actor, id, mid, cap, st, en) /\ UNCHANGED <<hook, page>>

\* delete from screenings where id = id
DeleteScreeningStmt(actor, id) ==
  /\ MayWriteCatalog(actor)
  /\ \E s \in screenings : s.id = id
  /\ CascadeDelete({s \in screenings : s.id = id})
  /\ UNCHANGED <<movies, profiles>>

DeleteScreening(actor, id) == DeleteScreeningStmt(actor, id) /\ UNCHANGED <<hook, page>>

\* insert into profiles (user_id, role)
InsertProfile(actor, uid, role) ==
  /\ MayWriteProfiles(actor)
  /\ profiles[uid] = NullRef
  /\ profiles' = [profiles EXCEPT ![uid] = role]
  /\ UNCHANGED <<hook, page, movies, screenings, reservations, attendance_logs, calls, validated>>

\* update profiles set role = role where user_id = uid
UpdateProfile(actor, uid, role) ==
  /\ MayWriteProfiles(actor)
  /\ profiles[uid] # NullRef
  /\ profiles' = [profiles EXCEPT ![uid] = role]
  /\ UNCHANGED <<hook, page, movies, screenings, reservations, attendance_logs, calls, validated>>

\* delete from profiles where user_id = uid
DeleteProfile(actor, uid) ==
  /\ MayWriteProfiles(actor)
  /\ profiles[uid] # NullRef
  /\ profiles' = [profiles EXCEPT ![uid] = NullRef]
  /\ UNCHANGED <<hook, page, movies, screenings, reservations, attendance_logs, calls, validated>>

\* ------------------------------------------------ the data hooks of a session
\* a property of a hook input that is undefined
Undefined == "undefined"

\* mutant: undefined properties are sent as null
sanitizePayload_NullForUndefined(input) ==
  [k \in DOMAIN input |-> IF input[k] = Undefined THEN NullRef ELSE input[k]]

\* sanitizePayload: the properties whose value is not undefined
sanitizePayload(input) == [k \in {f \in DOMAIN input : input[f] # Undefined} |-> input[k]]

\* value ?? fallback
OrElse(value, fallback) == IF value \in {Undefined, NullRef} THEN fallback ELSE value

\* error.message of a refused statement and of a request that did not get through
MsgRejected == "rejected"
MsgUnavailable == "unavailable"

backend == <<movies, screenings, profiles, reservations, attendance_logs, calls, validated>>

\* { data: record, error: null } and, for remove, { error: null }
HookOk(op, rows) == [op |-> op, data |-> rows, error |-> NullRef]

\* { data: null, error: error.message } and, for remove, { error: error.message }
HookError(op, msg) == [op |-> op, data |-> {}, error |-> msg]

\* the rows a select of this table returns to user u
VisibleRows(table, u) ==
  CASE table = "movies" -> VisibleMovies(u)
    [] table = "screenings" -> VisibleScreenings(u)
    [] table = "reservations" -> VisibleReservations(u)
    [] table = "attendance_logs" -> VisibleLogs(u)

\* set...((current) => [record, ...current])
Prepended(list, rows) == rows \cup list

\* set...((current) => current.map((row) => (row.id === id ? record : row)))
Replaced(list, id, rows) ==
  {IF r.id = id THEN (CHOOSE record \in rows : TRUE) ELSE r : r \in list}

\* set...((current) => current.filter((row) => row.id !== id))
Without(list, id) == {r \in list : r.id # id}

\* after the statement: the new list and the result the operation returns
HookDone(list, result) ==
  /\ hook' = [hook EXCEPT !.list = list, !.result = result]
  /\ UNCHANGED page

\* mutant: the error branch empties the list, as refresh does
HookFailed_ClearsList(op, admitted) ==
  /\ UNCHANGED backend
  /\ UNCHANGED page
  /\ \E msg \in (IF admitted THEN {MsgUnavailable} ELSE {MsgRejected, MsgUnavailable}) :
       hook' = [hook EXCEPT !.list = {}, !.result = HookError(op, msg)]

\* if (error) return { data: null, error: error.message }: the backend
\* refuses the statement, or the request does not get through
HookFailed(op, admitted) ==
  /\ UNCHANGED backend
  /\ UNCHANGED page
  /\ \E msg \in (IF admitted THEN {MsgUnavailable} ELSE {MsgRejected, MsgUnavailable}) :
       hook' = [hook EXCEPT !.result = HookError(op, msg)]

\* refresh of any of the four hooks: the rows the select returns, or [] when
\* it fails
useHook_refresh ==
  /\ hook.table # NullRef
  /\ \/ hook' = [hook EXCEPT !.list = VisibleRows(hook.table, hook.user)]
     \/ hook' = [hook EXCEPT !.list = {}]
  /\ UNCHANGED backend
  /\ UNCHANGED page

\* useMovies
useMovies_create(active) ==
  /\ hook.table = "movies"
  /\ \/ /\ InsertMovieStmt(hook.user, active)
        /\ HookDone(Prepended(hook.list, movies' \ movies), HookOk("create", movies' \ movies))
     \/ HookFailed("create", ENABLED InsertMovieStmt(hook.user, active))

useMovies_update(id, active) ==
  /\ hook.table = "movies"
  /\ \/ /\ UpdateMovieStmt(hook.user, id, active)
        /\ LET rows == {m \in movies' : m.id = id}
           IN HookDone(Replaced(hook.list, id, rows), HookOk("update", rows))
     \/ HookFailed("update", ENABLED UpdateMovieStmt(hook.user, id, active))

useMovies_remove(id) ==
  /\ hook.table = "movies"
  /\ \/ /\ DeleteMovieStmt(hook.user, id)
        /\ HookDone(Without(hook.list, id), HookOk("remove", {}))
     \/ /\ ~ENABLED DeleteMovieStmt(hook.user, id)
        /\ UNCHANGED backend
        /\ HookDone(Without(hook.list, id), HookOk("remove", {}))
     \/ HookFailed("remove", TRUE)

\* useScreenings
useScreenings_create(mid, cap, st, en) ==
  /\ hook.table = "screenings"
  /\ \/ /\ InsertScreeningStmt(hook.user, mid, cap, st, en)
        /\ HookDone(Prepended(hook.list, screenings' \ screenings),
                    HookOk("create", screenings' \ screenings))
     \/ HookFailed("create", ENABLED InsertScreeningStmt(hook.user, mid, cap, st, en))

useScreenings_update(id, mid, cap, st, en) ==
  /\ hook.table = "screenings"
  /\ \/ /\ UpdateScreeningStmt(hook.user, id, mid, cap, st, en)
        /\ LET rows == {s \in screenings' : s.id = id}
           IN HookDone(Replaced(hook.list, id, rows), HookOk("update", rows))
     \/ HookFailed("update", ENABLED UpdateScreeningStmt(hook.user, id, mid, cap, st, en))

useScreenings_remove(id) ==
  /\ hook.table = "screenings"
  /\ \/ /\ DeleteScreeningStmt(hook.user, id)
        /\ HookDone(Without(hook.list, id), HookOk("remove", {}))
     \/ /\ ~ENABLED DeleteScreeningStmt(hook.user, id)
        /\ UNCHANGED backend
        /\ HookDone(Without(hook.list, id), HookOk("remove", {}))
     \/ HookFailed("remove", TRUE)

\* useReservations
useReservations_create(input) ==
  LET payload == sanitizePayload([screening_id |-> input.screening_id,
                                  user_id |-> input.user_id,
                                  status |-> OrElse(input.status, "confirmed"),
                                  seat_label |-> OrElse(input.seat_label, NullRef)])
  IN /\ hook.table = "reservations"
     /\ \/ /\ InsertReservationStmt(hook.user, payload.screening_id, payload.user_id,
                                    payload.status, payload.seat_label)
           /\ HookDone(Prepended(hook.list, reservations' \ reservations),
                       HookOk("create", reservations' \ reservations))
        \/ HookFailed("create",
                      ENABLED InsertReservationStmt(hook.user, payload.screening_id,
                                                    payload.user_id, payload.status,
                                                    payload.seat_label))

\* an update without columns changes no row; whether the reply then carries
\* the row or an error is the data API's choice
useReservations_update(id, input) ==
  LET payload == sanitizePayload([status |-> input.status, seat_label |-> input.seat_label])
  IN /\ hook.table = "reservations"
     /\ \/ /\ UpdateReservationStmt(hook.user, id, payload)
           /\ LET rows == {r \in reservations' : r.id = id}
              IN HookDone(Replaced(hook.list, id, rows), HookOk("update", rows))
        \/ /\ DOMAIN payload = {}
           /\ HookFailed("update", FALSE)
        \/ HookFailed("update", ENABLED UpdateReservationStmt(hook.user, id, payload))

useReservations_remove(id) ==
  /\ hook.table = "reservations"
  /\ \/ /\ DeleteReservationStmt(hook.user, id)
        /\ HookDone(Without(hook.list, id), HookOk("remove", {}))
     \/ /\ ~ENABLED DeleteReservationStmt(hook.user, id)
        /\ UNCHANGED backend
        /\ HookDone(Without(hook.list, id), HookOk("remove", {}))
     \/ HookFailed("remove", TRUE)

\* useAttendanceLogs
useAttendanceLogs_create(rid, sb) ==
  /\ hook.table = "attendance_logs"
  /\ \/ /\ InsertAttendanceLogStmt(hook.user, rid, OrElse(sb, NullRef))
        /\ HookDone(Prepended(hook.list, attendance_logs' \ attendance_logs),
                    HookOk("create", attendance_logs' \ attendance_logs))
     \/ HookFailed("create", ENABLED InsertAttendanceLogStmt(hook.user, rid, OrElse(sb, NullRef)))

\* the update and then a select of the row: when the select fails the
\* operation returns its error although the row is updated
useAttendanceLogs_update(id, sb) ==
  /\ hook.table = "attendance_logs"
  /\ \/ \E l \in attendance_logs :
          /\ l.id = id
          /\ UpdateAttendanceLogStmt(hook.user, id, l.reservation_id, OrElse(sb, NullRef))
          /\ LET rows == {x \in attendance_logs' : x.id = id}
             IN \/ HookDone(Replaced(hook.list, id, rows), HookOk("update", rows))
                \/ HookDone(hook.list, HookError("update", MsgUnavailable))
     \/ HookFailed("update",
                   \E l \in attendance_logs :
                     /\ l.id = id
                     /\ ENABLED UpdateAttendanceLogStmt(hook.user, id, l.reservation_id,
                                                        OrElse(sb, NullRef)))

useAttendanceLogs_remove(id) ==
  /\ hook.table = "attendance_logs"
  /\ \/ /\ DeleteAttendanceLogStmt(hook.user, id)
        /\ HookDone(Without(hook.list, id), HookOk("remove", {}))
     \/ /\ ~ENABLED DeleteAttendanceLogStmt(hook.user, id)
        /\ UNCHANGED backend
        /\ HookDone(Without(hook.list, id), HookOk("remove", {}))
     \/ HookFailed("remove", TRUE)

\* ------------------------------------------------ view screening_stats
NoMovie == [id |-> NullRef, is_active |-> FALSE]

\* from screenings s left join movies m on m.id = s.movie_id
\*                   left join reservations r on r.screening_id = s.id
StatsJoin ==
  UNION {LET ms == {m \in movies : m.id = s.movie_id}
             rs == {r \in reservations : r.screening_id = s.id}
         IN {[s |-> s, m |-> m, r |-> r] :
               m \in (IF ms = {} THEN {NoMovie} ELSE ms),
               r \in (IF rs = {} THEN {NoRow} ELSE rs)} : s \in screenings}

\* count(r.id) filter (where r.status in sts): the rows with r.id not null
CountIds(rows, sts) == Cardinality({j \in rows : j.r.id # NullId /\ j.r.status \in sts})

\* mutant: no_show does not count as active
ActiveStatuses_NoNoShow == {"pending", "confirmed", "checked_in"}

\* where r.status in ('pending', 'confirmed', 'checked_in', 'no_show')
ActiveStatuses == {"pending", "confirmed", "checked_in", "no_show"}

\* nullif(a, b)
NullIf(a, b) == IF a = b THEN NullNum ELSE a

\* the outcome of a numeric division by zero: the query fails
DivisionByZero == -2

\* mutant: round(..., 2) cuts the digits off
RoundedRate_Truncated(a, b) ==
  IF a = NullNum \/ b = NullNum THEN NullNum
  ELSE IF b = 0 THEN DivisionByZero
  ELSE (a * 10000) \div b

\* round((a::numeric / b) * 100, 2), in hundredths of a percent: NULL when an
\* operand is NULL, halves rounded away from zero
RoundedRate(a, b) ==
  IF a = NullNum \/ b = NullNum THEN NullNum
  ELSE IF b = 0 THEN DivisionByZero
  ELSE (2 * a * 10000 + b) \div (2 * b)

\* mutant: the rates are not coalesced
CoalesceNum_Null(x, d) == x

\* coalesce(x, d) of numerics
CoalesceNum(x, d) == IF x = NullNum THEN d ELSE x

\* coalesce(round((count(r.id)::numeric / nullif(s.capacity::numeric, 0)) * 100, 2), 0)
occupancy_rate(total, capacity) == CoalesceNum(RoundedRate(total, NullIf(capacity, 0)), 0)

\* coalesce(round(checked_in::numeric / nullif(count(r.id)::numeric, 0) * 100, 2), 0)
attendance_rate(checked, total) == CoalesceNum(RoundedRate(checked, NullIf(total, 0)), 0)

\* group by s.id, m.title: one row of the view for each group
screening_stats ==
  {LET rows == {j \in StatsJoin : j.s.id = g[1] /\ j.m.id = g[2]}
   IN [screening_id |-> g[1],
       movie_id |-> (CHOOSE j \in rows : TRUE).s.movie_id,
       total_reservations |-> CountIds(rows, reservation_status),
       active_reservations |-> CountIds(rows, ActiveStatuses),
       checked_in_count |-> CountIds(rows, {"checked_in"}),
       capacity |-> (CHOOSE j \in rows : TRUE).s.capacity,
       occupancy_rate |->
         occupancy_rate(CountIds(rows, reservation_status),
                        (CHOOSE j \in rows : TRUE).s.capacity),
       attendance_rate |->
         attendance_rate(CountIds(rows, {"checked_in"}),
                         CountIds(rows, reservation_status))] :
     g \in {<<j.s.id, j.m.id>> : j \in StatsJoin}}

\* the reservations page of one screening room: MaxLive rows at a time
InsertReservationCapped(actor, sid, uid, st) ==
  /\ Cardinality(reservations) < MaxLive
  /\ InsertReservation(actor, sid, uid, st)

\* ---------------------------------------------------------------- Init
Init ==
  /\ movies = {[id |-> "m1", is_active |-> TRUE]}
  /\ screenings = {ScreeningRow("s1", "m1", FormCapacity, 1, NullNum)}
  /\ profiles = [u \in Users |-> IF u = "ana" THEN "admin" ELSE "student"]
  /\ reservations = {}
  /\ attendance_logs = {}
  /\ calls = [c \in Calls |-> IdleCall]
  /\ validated = {}
  /\ hook = IdleHook
  /\ page = IdlePage

\* ---------------------------------------------------------------- Next
Next ==
  \/ \E c \in Calls, u \in Users, tok \in TokenInputs, sc \in ScannerInputs : Call(c, u, tok, sc)
  \/ \E c \in Calls : SelectReservation(c)
  \/ \E c \in Calls : CheckLog(c)
  \/ \E c \in Calls : InsertLog(c)
  \/ \E c \in Calls : UpdateStatus(c)
  \/ \E c \in Calls : ReturnRegistered(c)
  \/ \E a \in Users, sid \in Screenings, uid \in Users, st \in reservation_status :
       InsertReservationCapped(a, sid, uid, st)
  \/ \E a \in Users, id \in ResIds, st \in reservation_status : UpdateReservation(a, id, st)
  \/ \E a \in Users, id \in ResIds : DeleteReservation(a, id)
  \/ \E a \in Users, rid \in ResIds, sb \in ScannerInputs : InsertAttendanceLog(a, rid, sb)
  \/ \E a \in Users, id \in LogIds, rid \in ResIds, sb \in ScannerInputs :
       UpdateAttendanceLog(a, id, rid, sb)
  \/ \E a \in Users, id \in LogIds : DeleteAttendanceLog(a, id)

Spec == Init /\ [][Next]_vars

\* ------------------------------------------------ concurrent scans of one code
\* one reservation that can be checked in, and nothing but admin calls with
\* its token
InitRace ==
  /\ movies = {[id |-> "m1", is_active |-> TRUE]}
  /\ screenings = {ScreeningRow("s1", "m1", FormCapacity, 1, NullNum)}
  /\ profiles = [u \in Users |-> IF u = "ana" THEN "admin" ELSE "student"]
  /\ \E uid \in Users, st \in reservation_status \ {"cancelled"} :
       reservations = {[id |-> 1, screening_id |-> "s1", user_id |-> uid, status |-> st,
                        seat_label |-> NullRef, qr_token |-> GenToken(1)]}
  /\ attendance_logs = {}
  /\ calls = [c \in Calls |-> IdleCall]
  /\ validated = {}
  /\ hook = IdleHook
  /\ page = IdlePage

NextRace ==
  \/ \E c \in Calls, sc \in ScannerInputs : Call(c, "ana", GenToken(1), sc)
  \/ \E c \in Calls : SelectReservation(c)
  \/ \E c \in Calls : CheckLog(c)
  \/ \E c \in Calls : InsertLog(c)
  \/ \E c \in Calls : UpdateStatus(c)
  \/ \E c \in Calls : ReturnRegistered(c)

SpecRace == InitRace /\ [][NextRace]_vars

\* ------------------------------------------------ the tables with two reservations
\* staff scanning the codes of reservations that are confirmed or cancelled,
\* and every client statement on the two tables
TableStatuses == {"confirmed", "cancelled"}

NextTables ==
  \/ \E c \in Calls, i \in ResIds : Call(c, "ana", GenToken(i), NullRef)
  \/ \E c \in Calls : SelectReservation(c)
  \/ \E c \in Calls : CheckLog(c)
  \/ \E c \in Calls : InsertLog(c)
  \/ \E c \in Calls : UpdateStatus(c)
  \/ \E c \in Calls : ReturnRegistered(c)
  \/ \E a \in Users, sid \in Screenings, uid \in Users, st \in TableStatuses :
       InsertReservation(a, sid, uid, st)
  \/ \E a \in Users, id \in ResIds, st \in TableStatuses : UpdateReservation(a, id, st)
  \/ \E a \in Users, id \in ResIds : DeleteReservation(a, id)
  \/ \E a \in Users, rid \in ResIds, sb \in ScannerInputs : InsertAttendanceLog(a, rid, sb)
  \/ \E a \in Users, id \in LogIds, rid \in ResIds, sb \in ScannerInputs :
       UpdateAttendanceLog(a, id, rid, sb)
  \/ \E a \in Users, id \in LogIds : DeleteAttendanceLog(a, id)

SpecTables == Init /\ [][NextTables]_vars

\* ------------------------------------------------ the rows of reservations
\* two screenings on the programme; admins and owners insert, edit and delete
\* reservations, through the hook and through the data API
TokenEdits == {GenToken(i) : i \in ResIds} \cup {<<"d">>}

InitRows ==
  /\ movies = {[id |-> "m1", is_active |-> TRUE]}
  /\ screenings = {ScreeningRow("s1", "m1", FormCapacity, 1, NullNum), ScreeningRow("s2", "m1", FormCapacity, 1, NullNum)}
  /\ profiles = [u \in Users |-> IF u = "ana" THEN "admin" ELSE "student"]
  /\ reservations = {}
  /\ attendance_logs = {}
  /\ calls = [c \in Calls |-> IdleCall]
  /\ validated = {}
  /\ hook = IdleHook
  /\ page = IdlePage

NextRows ==
  \/ \E a \in Users, sid \in ScreeningIds, uid \in Users, st \in TableStatuses :
       InsertReservation(a, sid, uid, st)
  \/ \E a \in Users, id \in ResIds, st \in TableStatuses : UpdateReservation(a, id, st)
  \/ \E a \in Users, id \in ResIds, uid \in Users, tok \in TokenEdits :
       UpdateReservationColumns(a, id, uid, tok)
  \/ \E a \in Users, id \in ResIds : DeleteReservation(a, id)

SpecRows == InitRows /\ [][NextRows]_vars

\* ------------------------------------------------ the catalog with its dependants
\* an empty database; admins and users fill and clear the four tables
InitCatalog ==
  /\ movies = {}
  /\ screenings = {}
  /\ profiles = [u \in Users |-> IF u = "ana" THEN "admin" ELSE "student"]
  /\ reservations = {}
  /\ attendance_logs = {}
  /\ calls = [c \in Calls |-> IdleCall]
  /\ validated = {}
  /\ hook = IdleHook
  /\ page = IdlePage

NextCatalog ==
  \/ \E a \in Users : InsertMovie(a, TRUE)
  \/ \E a \in Users, id \in MovieIds : DeleteMovie(a, id)
  \/ \E a \in Users, mid \in MovieIds : InsertScreening(a, mid, FormCapacity, 1, NullNum)
  \/ \E a \in Users, id \in ScreeningIds, mid \in MovieIds : UpdateScreening(a, id, mid, FormCapacity, 1, NullNum)
  \/ \E a \in Users, id \in ScreeningIds : DeleteScreening(a, id)
  \/ \E a \in Users, sid \in ScreeningIds, uid \in Users, st \in reservation_status :
       InsertReservation(a, sid, uid, st)
  \/ \E a \in Users, id \in ResIds, st \in reservation_status : UpdateReservation(a, id, st)
  \/ \E a \in Users, id \in ResIds : DeleteReservation(a, id)
  \/ \E a \in Users, rid \in ResIds : InsertAttendanceLog(a, rid, NullRef)

SpecCatalog == InitCatalog /\ [][NextCatalog]_vars

\* ------------------------------------------------ the programme of one movie
\* admins schedule and reschedule screenings of one movie with every
\* capacity and time the form can send; users book, edit and drop seats
InitHall ==
  /\ movies = {[id |-> "m1", is_active |-> TRUE]}
  /\ screenings = {}
  /\ profiles = [u \in Users |-> IF u = "ana" THEN "admin" ELSE "student"]
  /\ reservations = {}
  /\ attendance_logs = {}
  /\ calls = [c \in Calls |-> IdleCall]
  /\ validated = {}
  /\ hook = IdleHook
  /\ page = IdlePage

NextHall ==
  \/ \E a \in Users, cap \in CapacityInputs, st \in StartInputs, en \in EndInputs :
       InsertScreening(a, "m1", cap, st, en)
  \/ \E a \in Users, id \in ScreeningIds, cap \in CapacityInputs, st \in StartInputs,
          en \in EndInputs :
       UpdateScreening(a, id, "m1", cap, st, en)
  \/ \E a \in Users, sid \in ScreeningIds, uid \in Users, st \in reservation_status :
       InsertReservation(a, sid, uid, st)
  \/ \E a \in Users, id \in ResIds, st \in reservation_status : UpdateReservation(a, id, st)
  \/ \E a \in Users, id \in ResIds : DeleteReservation(a, id)

SpecHall == InitHall /\ [][NextHall]_vars

\* ------------------------------------------------ the desk and the entrance
\* users book, edit and drop the one seat on sale through the reservations
\* page while staff and students send codes (empty, known, unknown) to the
\* routine
DeskTokens == {<<>>, GenToken(1), GenToken(2)}

NextDesk ==
  \/ \E c \in Calls, u \in Users, tok \in DeskTokens : Call(c, u, tok, NullRef)
  \/ \E c \in Calls : SelectReservation(c)
  \/ \E c \in Calls : CheckLog(c)
  \/ \E c \in Calls : InsertLog(c)
  \/ \E c \in Calls : UpdateStatus(c)
  \/ \E c \in Calls : ReturnRegistered(c)
  \/ \E a \in Users, uid \in Users, st \in reservation_status :
       InsertReservationCapped(a, "s1", uid, st)
  \/ \E a \in Users, id \in ResIds, st \in reservation_status : UpdateReservation(a, id, st)
  \/ \E a \in Users, id \in ResIds : DeleteReservation(a, id)

SpecDesk == Init /\ [][NextDesk]_vars

\* ------------------------------------------------ one data hook and the others
\* one user works through one of the four hooks, which has loaded its list,
\* while other sessions book the first seat and switch movies on and off
HookTables == {"movies", "screenings", "reservations", "attendance_logs"}

\* the inputs of useReservations.create and update that the page sends
CreateInputs ==
  [screening_id : {"s1"}, user_id : Users, status : {Undefined, "pending"},
   seat_label : {Undefined}]

UpdateInputs == [status : {Undefined, "cancelled"}, seat_label : {Undefined, "A1"}]

InitHooks ==
  /\ movies = {[id |-> "m1", is_active |-> TRUE]}
  /\ screenings = {ScreeningRow("s1", "m1", FormCapacity, 1, NullNum)}
  /\ profiles = [u \in Users |-> IF u = "ana" THEN "admin" ELSE "student"]
  /\ reservations = {}
  /\ attendance_logs = {}
  /\ calls = [c \in Calls |-> IdleCall]
  /\ validated = {}
  /\ \E t \in HookTables, u \in Users :
       hook = [IdleHook EXCEPT !.table = t, !.user = u, !.list = VisibleRows(t, u)]
  /\ page = IdlePage

\* create, update and remove of the four hooks
HookMutation ==
  \/ \E active \in BOOLEAN : useMovies_create(active)
  \/ \E id \in MovieIds, active \in BOOLEAN : useMovies_update(id, active)
  \/ \E id \in MovieIds : useMovies_remove(id)
  \/ \E mid \in MovieIds : useScreenings_create(mid, FormCapacity, 1, NullNum)
  \/ \E id \in ScreeningIds, mid \in MovieIds, cap \in {0, FormCapacity} :
       useScreenings_update(id, mid, cap, 1, NullNum)
  \/ \E id \in ScreeningIds : useScreenings_remove(id)
  \/ \E input \in CreateInputs : useReservations_create(input)
  \/ \E id \in ResIds, input \in UpdateInputs : useReservations_update(id, input)
  \/ \E id \in ResIds : useReservations_remove(id)
  \/ \E rid \in ResIds, sb \in {Undefined, "ana"} : useAttendanceLogs_create(rid, sb)
  \/ \E id \in LogIds, sb \in {Undefined, "ana"} : useAttendanceLogs_update(id, sb)
  \/ \E id \in LogIds : useAttendanceLogs_remove(id)

NextHooks ==
  \/ HookMutation
  \/ useHook_refresh
  \/ \E a \in Users, uid \in Users : InsertReservationCapped(a, "s1", uid, "confirmed")
  \/ \E a \in Users, id \in MovieIds, active \in BOOLEAN : UpdateMovie(a, id, active)

SpecHooks == InitHooks /\ [][NextHooks]_vars

\* ------------------------------------------------ AttendancePage
MaxScans == 3        \* calls of the routine the page sends in one behaviour
MaxNow == 12000      \* the clock of the page stops here (ms)

\* the clock moves by a second or by the whole window
ClockSteps == {1000, DedupeWindow}

\* what the camera reads and what the user types
PageTokens == {<<>>, <<" ">>, <<"a">>, <<"b">>, <<" ", "a">>}

\* how a call of the routine ends for the page: a transport error, no data,
\* is_valid, already_scanned, or another refusal
RpcOutcomes == {"error", "nodata", "valid", "already", "invalid"}

\* token === lastToken && now - lastScanTime < 4000
IsRepeat(known, token, now) ==
  token = known.lastToken /\ now - known.lastScanTime < DedupeWindow

\* processToken(rawToken) up to its await, as the page p runs it: the early
\* returns, judged with the lastToken and lastScanTime of the render that
\* created the callback; the three setters; the call.  repeats (history)
\* counts the calls sent for the token sent last, inside the window.
processToken(p, rawToken) ==
  LET token == Trim(rawToken)
  IN IF token = <<>> \/ IsRepeat(p.rendered, token, p.now)
       THEN p
     ELSE [p EXCEPT
             !.state = [processing |-> TRUE, lastToken |-> token, lastScanTime |-> p.now],
             !.inflight = @ \cup {[id |-> p.sent + 1, stage |-> "rpc"]},
             !.sent = @ + 1,
             !.repeats = @ + (IF IsRepeat(p.state, token, p.now) THEN 1 ELSE 0)]

\* React renders the page with its latest state: the Scanner's paused, the
\* button's disabled and the closure of processToken follow
Render ==
  /\ page.rendered # page.state
  /\ page' = [page EXCEPT !.rendered = page.state]
  /\ UNCHANGED backend
  /\ UNCHANGED hook

\* handleScan: the Scanner, not paused, reports a code.  Detections are
\* scanDelay apart, so the page has rendered since the last one.
handleScan(value) ==
  /\ ~page.rendered.processing
  /\ page.rendered = page.state
  /\ LET next == IF value = <<>> THEN page ELSE processToken(page, value)
     IN /\ next.sent <= MaxScans
        /\ page' = next
  /\ UNCHANGED backend
  /\ UNCHANGED hook

\* handleManualSubmit: the form is submitted while its button is enabled in
\* the rendered page; the state it sets is rendered before any other event,
\* as React does for the handlers of its own events
handleManualSubmit(manualToken) ==
  /\ ~page.rendered.processing
  /\ LET next == IF Trim(manualToken) = <<>> THEN page ELSE processToken(page, manualToken)
     IN /\ next.sent <= MaxScans
        /\ page' = IF next = page THEN page ELSE [next EXCEPT !.rendered = next.state]
  /\ UNCHANGED backend
  /\ UNCHANGED hook

\* the call returns: error and no data end the handling, a result is shown,
\* and a valid one is followed by await refresh()
HandleResult(c, outcome) ==
  /\ c \in page.inflight
  /\ c.stage = "rpc"
  /\ page' = IF outcome = "valid"
               THEN [page EXCEPT !.inflight = (@ \ {c}) \cup {[c EXCEPT !.stage = "refresh"]}]
             ELSE [page EXCEPT !.inflight = @ \ {c}, !.state.processing = FALSE]
  /\ UNCHANGED backend
  /\ UNCHANGED hook

\* refresh() has returned: setProcessing(false)
AfterRefresh(c) ==
  /\ c \in page.inflight
  /\ c.stage = "refresh"
  /\ page' = [page EXCEPT !.inflight = @ \ {c}, !.state.processing = FALSE]
  /\ UNCHANGED backend
  /\ UNCHANGED hook

\* Date.now() moves on
Tick(d) ==
  /\ page.now + d <= MaxNow
  /\ page' = [page EXCEPT !.now = @ + d]
  /\ UNCHANGED backend
  /\ UNCHANGED hook

PageCalls == {[id |-> i, stage |-> s] : i \in 1..MaxScans, s \in {"rpc", "refresh"}}

NextPage ==
  \/ \E value \in PageTokens : handleScan(value)
  \/ \E manualToken \in PageTokens : handleManualSubmit(manualToken)
  \/ Render
  \/ \E c \in PageCalls, outcome \in RpcOutcomes : HandleResult(c, outcome)
  \/ \E c \in PageCalls : AfterRefresh(c)
  \/ \E d \in ClockSteps : Tick(d)

SpecPage == Init /\ [][NextPage]_vars

\* ------------------------------------------------ the policies of the admin tables
\* every user tries every statement on movies, screenings, attendance_logs and
\* profiles, and calls the routine with an empty code; admins come and go
\* with the edits of profiles
NextPolicies ==
  \/ \E a \in Users, active \in BOOLEAN : InsertMovie(a, active)
  \/ \E a \in Users, id \in MovieIds, active \in BOOLEAN : UpdateMovie(a, id, active)
  \/ \E a \in Users, id \in MovieIds : DeleteMovie(a, id)
  \/ \E a \in Users, mid \in MovieIds : InsertScreening(a, mid, FormCapacity, 1, NullNum)
  \/ \E a \in Users, id \in ScreeningIds, mid \in MovieIds : UpdateScreening(a, id, mid, FormCapacity, 1, NullNum)
  \/ \E a \in Users, id \in ScreeningIds : DeleteScreening(a, id)
  \/ \E a \in Users, uid \in Users : InsertReservationCapped(a, "s1", uid, "confirmed")
  \/ \E a \in Users, rid \in ResIds, sb \in ScannerInputs : InsertAttendanceLog(a, rid, sb)
  \/ \E a \in Users, id \in LogIds, rid \in ResIds, sb \in ScannerInputs :
       UpdateAttendanceLog(a, id, rid, sb)
  \/ \E a \in Users, id \in LogIds : DeleteAttendanceLog(a, id)
  \/ \E a \in Users, uid \in Users, role \in Roles : InsertProfile(a, uid, role)
  \/ \E a \in Users, uid \in Users, role \in Roles : UpdateProfile(a, uid, role)
  \/ \E a \in Users, uid \in Users : DeleteProfile(a, uid)
  \/ \E c \in Calls, u \in Users : Call(c, u, <<>>, NullRef)

SpecPolicies == Init /\ [][NextPolicies]_vars

\* ================================================================ properties
Returned(c) == calls[c].pc = "returned"

Raised(c) == calls[c].pc = "raised"

Done(c) == Returned(c) \/ Raised(c)

\* call c takes a step
Steps(c) == calls'[c].pc # calls[c].pc

\* call c ends with this step
Ends(c) == ~Done(c) /\ calls'[c].pc \in {"returned", "raised"}

ValidCalls == {c \in Calls : Returned(c) /\ calls[c].v_result.is_valid}

AlreadyScannedCalls ==
  {c \in Calls : Returned(c) /\ calls[c].v_result.already_scanned /\ ~calls[c].v_result.is_valid}

\* C1 (as claimed): when all of the N >= 2 concurrent admin calls with the
\* token of a fresh reservation have ended, exactly one has returned
\* is_valid = true, each of the other N - 1 has returned already_scanned = true
\* with is_valid = false, and the reservation has exactly one attendance log.
C1_ExactlyOneValidOthersAlreadyScanned ==
  (\A c \in Calls : Done(c)) =>
    /\ Cardinality(ValidCalls) = 1
    /\ Cardinality(AlreadyScannedCalls) = MaxCalls - 1
    /\ Cardinality(LogsOf(1)) = 1

\* C4 (as claimed): the routine never raises for a duplicate scan, also when
\* the scan races with another scan of the same token; every call ends with a
\* returned result, and the results other than the registration are invalid.
C4_NeverRaises ==
  \A c \in Calls :
    /\ ~Raised(c)
    /\ Returned(c) /\ calls[c].v_result.message # MsgRegistered => ~calls[c].v_result.is_valid

\* C2: in every reachable state each reservation has at most one
\* attendance_logs row, whatever calls of the routine and client statements
\* on attendance_logs and reservations have run and however they interleaved.
C2_AtMostOneLogPerReservation ==
  \A rid \in ResIds : Cardinality(LogsOf(rid)) <= 1

\* C2 witness: two reservations, each with its log, after a call's insert of a
\* second log for one of them was refused by the unique index.
C2_Witness ==
  /\ Cardinality(reservations) = 2
  /\ \A r \in reservations : Cardinality(LogsOf(r.id)) = 1
  /\ \E c \in Calls : Raised(c) /\ calls[c].error = "23505"

C5_CancelledNeverCheckedIn ==
  [][\A c \in Calls :
       Steps(c) =>
         \A r \in RowsByToken(calls'[c].p_token) :
           r.status = "cancelled" =>
             /\ r \in reservations'
             /\ attendance_logs' = attendance_logs
             /\ calls'[c].pc = "returned" => ~calls'[c].v_result.is_valid]_vars

\* C6: a call whose token is the qr_token of no reservation returns
\* is_valid = false, already_scanned = false, reservation_id and screening_id
\* null, and its steps change no table; the lookup of such a token ends the call.
C6_UnknownTokenIsInvalid ==
  [][\A c \in Calls :
       /\ calls[c].pc \in {"idle", "select_reservation"}
       /\ Steps(c)
       /\ RowsByToken(calls'[c].p_token) = {}
       => /\ reservations' = reservations
          /\ attendance_logs' = attendance_logs
          /\ calls[c].pc = "select_reservation" =>
               calls'[c].pc = "returned" /\ calls'[c].v_result.message = MsgNotFound
          /\ calls'[c].pc # "returned" => calls'[c].pc = "select_reservation"
          /\ calls'[c].pc = "returned" =>
               /\ ~calls'[c].v_result.is_valid
               /\ ~calls'[c].v_result.already_scanned
               /\ calls'[c].v_result.reservation_id = NullId
               /\ calls'[c].v_result.screening_id = NullRef]_vars

\* C6 witness: a reservation exists and an admin call with another token has
\* returned the not-found result.
C6_Witness ==
  \E c \in Calls :
    /\ Returned(c)
    /\ calls[c].v_result.message = MsgNotFound
    /\ reservations # {}
    /\ RowsByToken(calls[c].p_token) = {}

\* the text is NULL, empty or made of blanks only
BlankText(tok) == tok = NullText \/ \A i \in 1..Len(tok) : tok[i] = " "

\* C7: the guards apply in the order authorization, empty token, lookup,
\* cancelled, duplicate, and the first that applies gives the result; a caller
\* who is not an admin gets the authorization result whatever the token is,
\* and no reservation is looked up for that call.
C7_GuardsInOrder ==
  [][\A c \in Calls :
       Steps(c) =>
         LET u == calls'[c].caller
             tok == calls'[c].p_token
             res == calls'[c].v_result
             rows == RowsByToken(tok)
         IN /\ calls[c].pc = "idle" /\ ~current_user_is_admin(u) =>
                 /\ calls'[c].pc = "returned"
                 /\ res = Result(NullId, NullRef, "cancelled", MsgUnauthorized, FALSE, FALSE)
                 /\ calls'[c].v_reservation = NoRow
            /\ calls[c].pc = "idle" /\ current_user_is_admin(u) /\ BlankText(tok) =>
                 calls'[c].pc = "returned" /\ res.message = MsgInvalidCode
            /\ calls[c].pc = "idle" /\ current_user_is_admin(u) /\ ~BlankText(tok) =>
                 calls'[c].pc = "select_reservation"
            /\ calls[c].pc = "select_reservation" /\ rows = {} =>
                 calls'[c].pc = "returned" /\ res.message = MsgNotFound
            /\ calls[c].pc = "select_reservation" /\ (\E r \in rows : r.status = "cancelled") =>
                 /\ calls'[c].pc = "returned"
                 /\ res.message = MsgCancelled
                 /\ ~res.already_scanned
            /\ calls[c].pc = "select_reservation" /\ (\E r \in rows : r.status # "cancelled") =>
                 calls'[c].pc = "check_log"
            /\ calls[c].pc = "check_log" /\ LogsOf(calls[c].v_reservation.id) # {} =>
                 /\ calls'[c].pc = "returned"
                 /\ res.message = MsgAlreadyValidated
                 /\ res.already_scanned
            /\ calls[c].pc = "check_log" /\ LogsOf(calls[c].v_reservation.id) = {} =>
                 calls'[c].pc = "insert_log"]_vars

\* C7 witness: a caller who is not an admin has scanned the token of a
\* reservation that could be checked in and got the authorization result.
C7_Witness ==
  \E c \in Calls :
    /\ Returned(c)
    /\ ~current_user_is_admin(calls[c].caller)
    /\ calls[c].v_result.message = MsgUnauthorized
    /\ \E r \in RowsByToken(calls[c].p_token) : r.status # "cancelled" /\ LogsOf(r.id) = {}

C10_OnlyFromConfirmedOrPending ==
  [][(\E c \in Calls : Steps(c)) =>
       \A r \in reservations : \A q \in reservations' :
         q.id = r.id /\ q.status # r.status =>
           r.status \in {"confirmed", "pending"} /\ q.status = "checked_in"]_vars

\* C11: the routine's writes take effect together.  Whoever reads the tables
\* finds, for every attendance log the routine has written, the reservation
\* checked_in; the log and the status appear with the one step that returns
\* the registration, and every other step of a call, a step that raises
\* part-way included, leaves reservations and attendance_logs as they were.
C11_AtomicEffect ==
  /\ [](\A l \in attendance_logs :
         \E r \in RowsById(l.reservation_id) : r.status = "checked_in")
  /\ [][\A c \in Calls :
         Steps(c) =>
           IF calls'[c].pc = "returned" /\ calls'[c].v_result.is_valid
             THEN /\ \E l \in attendance_logs' \ attendance_logs :
                       /\ attendance_logs' = attendance_logs \cup {l}
                       /\ l.reservation_id = calls[c].v_reservation.id
                  /\ \E r \in reservations :
                       /\ r.id = calls[c].v_reservation.id
                       /\ reservations' =
                            (reservations \ {r}) \cup {[r EXCEPT !.status = "checked_in"]}
           ELSE /\ reservations' = reservations
                /\ attendance_logs' = attendance_logs]_vars

\* C11 witness: one call has committed its log together with the status, and
\* another call that had passed the duplicate check was rolled back; the
\* tables hold the one log and the checked_in row.
C11_Witness ==
  /\ \E c \in Calls : Returned(c) /\ calls[c].v_result.is_valid
  /\ \E d \in Calls : Raised(d) /\ calls[d].error = "23505"
  /\ Cardinality(attendance_logs) = 1
  /\ \A r \in reservations : r.status = "checked_in"

\* C12 (as claimed): attendance_logs changes only with the step of the routine
\* that returns the registration (one row added) or with the delete of a
\* reservation (its log goes with it); no row is ever modified, and no client
\* statement on attendance_logs (the hook's create, update, remove) takes effect.
C12_LogsOnlyByRoutineAndCascade ==
  [][attendance_logs' # attendance_logs =>
       \/ \E c \in Calls :
            /\ ReturnRegistered(c)
            /\ \E l \in attendance_logs' \ attendance_logs :
                 attendance_logs' = attendance_logs \cup {l}
       \/ \E a \in Users, id \in ResIds :
            /\ DeleteReservation(a, id)
            /\ attendance_logs' = attendance_logs \ LogsOf(id)]_vars

\* C13 (as claimed): no statement of an actor who is not an admin changes the
\* status of a reservation, and a call of the routine by such an actor changes
\* no reservation.
C13_StatusChangedOnlyByAdmins ==
  [][\A a \in Users :
       ~current_user_is_admin(a) =>
         /\ \A id \in ResIds, st \in reservation_status :
              UpdateReservation(a, id, st) =>
                \A r \in RowsById(id) : \E q \in reservations' : q.id = id /\ q.status = r.status
         /\ \A c \in Calls :
              Steps(c) /\ calls'[c].caller = a => reservations' = reservations]_vars

\* C14: in every reachable state no two reservations have the same
\* (screening_id, user_id), and while a pair has a reservation no insert of
\* that pair takes effect, whoever tries it: the statement is refused by the
\* unique constraint and the table stays as it is.
C14_OneReservationPerPair ==
  /\ \A r1, r2 \in reservations :
       r1.screening_id = r2.screening_id /\ r1.user_id = r2.user_id => r1 = r2
  /\ \A a \in Users, sid \in ScreeningIds, uid \in Users, st \in reservation_status :
       (\E r \in reservations : r.screening_id = sid /\ r.user_id = uid) =>
         ~ENABLED InsertReservation(a, sid, uid, st)

\* C14 witness: a pair has its reservation, an id is free, and the admin's
\* insert of the same pair is refused while the insert for the other screening
\* is not.
C14_Witness ==
  \E r \in reservations :
    /\ FreeResIds # {}
    /\ r.screening_id = "s1"
    /\ ~ENABLED InsertReservation("ana", "s1", r.user_id, "confirmed")
    /\ ENABLED InsertReservation("ana", "s2", r.user_id, "confirmed")

\* C15: in every reachable state no two reservations have the same qr_token,
\* so the routine's lookup of any token finds at most one row, after any
\* inserts and any edits of rows (the token and the owner included) by admins
\* and by owners.
C15_TokensUnique ==
  /\ \A r1, r2 \in reservations : r1.qr_token = r2.qr_token => r1 = r2
  /\ \A tok \in TokenInputs \cup TokenEdits : Cardinality(LookupRows(tok)) <= 1

\* C15 witness: two reservations, one carrying a token an edit gave it; the
\* edit that would give the other row the same token is refused.
C15_Witness ==
  \E r1, r2 \in reservations :
    /\ r1.id # r2.id
    /\ r1.qr_token # GenToken(r1.id)
    /\ ~ENABLED UpdateReservationColumns("ana", r2.id, r2.user_id, r1.qr_token)
    /\ ENABLED UpdateReservationColumns("ana", r2.id, r2.user_id, r2.qr_token)

\* C18: for an actor who is not an admin, a select returns only rows whose
\* user_id is the actor, and an insert, update or delete takes effect only on
\* a row whose user_id is the actor before and after the statement; the rows
\* of other users are out of their reach in every reachable state.
C18_OwnRowsOnly ==
  \A a \in Users :
    ~current_user_is_admin(a) =>
      /\ \A r \in VisibleReservations(a) : r.user_id = a
      /\ \A sid \in ScreeningIds, uid \in Users, st \in reservation_status :
           ENABLED InsertReservation(a, sid, uid, st) => uid = a
      /\ \A r \in reservations :
           /\ (\E st \in reservation_status : ENABLED UpdateReservation(a, r.id, st)) =>
                r.user_id = a
           /\ \A uid \in Users, tok \in TokenEdits :
                ENABLED UpdateReservationColumns(a, r.id, uid, tok) =>
                  r.user_id = a /\ uid = a
           /\ ENABLED DeleteReservation(a, r.id) => r.user_id = a

\* C18 witness: the student and the admin each own a reservation; the student
\* reads and can edit and delete the own row, and the statements on the
\* admin's row do nothing.
C18_Witness ==
  \E mine, other \in reservations :
    /\ mine.user_id = "sam" /\ other.user_id = "ana"
    /\ VisibleReservations("sam") = {mine}
    /\ ENABLED UpdateReservation("sam", mine.id, "cancelled")
    /\ ENABLED DeleteReservation("sam", mine.id)
    /\ ~ENABLED UpdateReservation("sam", other.id, "cancelled")
    /\ ~ENABLED DeleteReservation("sam", other.id)

\* every row references a row that exists
RefIntegrity ==
  /\ \A s \in screenings : \E m \in movies : m.id = s.movie_id
  /\ \A r \in reservations : \E s \in screenings : s.id = r.screening_id
  /\ \A l \in attendance_logs : \E r \in reservations : r.id = l.reservation_id

\* C19: in every reachable state every screening references an existing
\* movie, every reservation an existing screening and every attendance log an
\* existing reservation; and a movie, a screening or a reservation that has
\* dependants can be deleted by an admin all the same: the dependants go with it.
C19_ReferentialIntegrity ==
  /\ RefIntegrity
  /\ \A a \in Users :
       current_user_is_admin(a) =>
         /\ \A m \in movies : ENABLED DeleteMovie(a, m.id)
         /\ \A s \in screenings : ENABLED DeleteScreening(a, s.id)
         /\ \A r \in reservations : ENABLED DeleteReservation(a, r.id)

\* C19 witness: a movie has a screening with a reservation that has its
\* attendance log, and the admin's delete of the movie is not refused: it has
\* dependants at every level.
C19_Witness ==
  /\ Cardinality(screenings) = 2
  /\ \E m \in movies, s \in screenings, r \in reservations, l \in attendance_logs :
       /\ s.movie_id = m.id
       /\ r.screening_id = s.id
       /\ l.reservation_id = r.id
       /\ ENABLED DeleteMovie("ana", m.id)

\* C20: the view has exactly one row for each screening; its
\* total_reservations is the number of the screening's reservations, cancelled
\* ones included, active_reservations the number of those that are pending,
\* confirmed, checked_in or no_show, checked_in_count the number of those that
\* are checked_in; so checked_in_count <= active_reservations <=
\* total_reservations, and a screening without reservations has three zeros.
C20_StatsCounts ==
  /\ \A s \in screenings :
       Cardinality({row \in screening_stats : row.screening_id = s.id}) = 1
  /\ \A row \in screening_stats :
       LET rs == {r \in reservations : r.screening_id = row.screening_id}
       IN /\ \E s \in screenings : s.id = row.screening_id
          /\ row.total_reservations = Cardinality(rs)
          /\ row.active_reservations =
               Cardinality({r \in rs : r.status \in {"pending", "confirmed", "checked_in", "no_show"}})
          /\ row.checked_in_count = Cardinality({r \in rs : r.status = "checked_in"})
          /\ row.checked_in_count <= row.active_reservations
          /\ row.active_reservations <= row.total_reservations
          /\ rs = {} => /\ row.total_reservations = 0
                        /\ row.active_reservations = 0
                        /\ row.checked_in_count = 0

\* C20 witness: one screening has a cancelled and a no_show reservation (total
\* 2, active 1, checked in 0), another has a checked_in one, or none at all.
C20_Witness ==
  /\ \E row \in screening_stats :
       /\ row.total_reservations = 2
       /\ row.active_reservations = 1
       /\ row.checked_in_count = 0
       /\ \E r \in reservations : r.screening_id = row.screening_id /\ r.status = "no_show"
  /\ \E row \in screening_stats :
       /\ row.total_reservations = 0
       /\ row.active_reservations = 0
       /\ row.checked_in_count = 0

\* a profiles row exists for u and its role is 'admin'
HasAdminProfile(u) == \E role \in Roles : profiles[u] = role /\ role = "admin"

C17_AdminOnlyTables ==
  \A a \in Users :
    ~current_user_is_admin(a) =>
      /\ VisibleMovies(a) = {}
      /\ VisibleScreenings(a) = {}
      /\ VisibleLogs(a) = {}
      /\ VisibleProfiles(a) = {}
      /\ \A active \in BOOLEAN : ~ENABLED InsertMovie(a, active)
      /\ \A id \in MovieIds :
           /\ \A active \in BOOLEAN : ~ENABLED UpdateMovie(a, id, active)
           /\ ~ENABLED DeleteMovie(a, id)
           /\ \A cap \in CapacityInputs, st \in StartInputs, en \in EndInputs :
                ~ENABLED InsertScreening(a, id, cap, st, en)
      /\ \A id \in ScreeningIds :
           /\ \A mid \in MovieIds, cap \in CapacityInputs, st \in StartInputs, en \in EndInputs :
                ~ENABLED UpdateScreening(a, id, mid, cap, st, en)
           /\ ~ENABLED DeleteScreening(a, id)
      /\ \A rid \in ResIds, sb \in ScannerInputs :
           /\ ~ENABLED InsertAttendanceLog(a, rid, sb)
           /\ \A id \in LogIds : ~ENABLED UpdateAttendanceLog(a, id, rid, sb)
      /\ \A id \in LogIds : ~ENABLED DeleteAttendanceLog(a, id)
      /\ \A uid \in Users :
           /\ \A role \in Roles :
                /\ ~ENABLED InsertProfile(a, uid, role)
                /\ ~ENABLED UpdateProfile(a, uid, role)
           /\ ~ENABLED DeleteProfile(a, uid)

\* C17 witness: each of the four tables has a row; the admin reads them and
\* can delete them, the student reads nothing, and the user without a profile
\* row neither.
C17_Witness ==
  /\ profiles["ana"] = "admin"
  /\ profiles["sam"] = "student"
  /\ VisibleMovies("ana") # {} /\ VisibleScreenings("ana") # {}
  /\ VisibleLogs("ana") # {} /\ VisibleProfiles("ana") = {"ana", "sam"}
  /\ VisibleMovies("sam") = {} /\ VisibleLogs("sam") = {}
  /\ \E l \in attendance_logs :
       ENABLED DeleteAttendanceLog("ana", l.id) /\ ~ENABLED DeleteAttendanceLog("sam", l.id)
  /\ \E m \in movies : ENABLED DeleteMovie("ana", m.id) /\ ~ENABLED DeleteMovie("sam", m.id)

\* ---------------------------------------------------------------- C21
\* C21: screening_stats never fails on a division by zero and never shows
\* a NULL rate: in every reachable state each row of the view has both rates,
\* attendance_rate is 0 for a screening without reservations, and the
\* expression of occupancy_rate gives 0 for a capacity of 0, whatever the
\* number of reservations.
C21_RatesGuarded ==
  /\ \A row \in screening_stats :
       /\ row.occupancy_rate \notin {DivisionByZero, NullNum}
       /\ row.attendance_rate \notin {DivisionByZero, NullNum}
       /\ row.total_reservations = 0 => row.attendance_rate = 0
  /\ \A total \in 0..MaxReservations : occupancy_rate(total, 0) = 0
  /\ attendance_rate(0, 0) = 0

\* C21 witness: the view shows a screening without reservations, with an
\* attendance_rate of 0, next to a screening whose reservation was checked in.
C21_Witness ==
  \E row, other \in screening_stats :
    /\ row.total_reservations = 0
    /\ row.attendance_rate = 0
    /\ row.occupancy_rate = 0
    /\ other.total_reservations = 1
    /\ other.attendance_rate = 10000

\* ---------------------------------------------------------------- C22
\* rate is num / den * 100 rounded to two decimals (in hundredths of a percent)
NearestHundredth(rate, num, den) ==
  /\ 2 * num * 10000 - den < 2 * rate * den
  /\ 2 * rate * den <= 2 * num * 10000 + den

\* C22: for every screening with capacity > 0, occupancy_rate is
\* total_reservations / capacity * 100 and, when there are reservations,
\* attendance_rate is checked_in_count / total_reservations * 100, each
\* rounded to two decimals; 30 reservations for 50 seats give 60.00 and 10
\* checked in of 30 give 33.33.
C22_RateFormulas ==
  /\ \A row \in screening_stats :
       row.capacity > 0 =>
         /\ NearestHundredth(row.occupancy_rate, row.total_reservations, row.capacity)
         /\ row.total_reservations > 0 =>
              NearestHundredth(row.attendance_rate, row.checked_in_count,
                               row.total_reservations)
  /\ occupancy_rate(30, 50) = 6000
  /\ attendance_rate(10, 30) = 3333

\* C22 witness: two reservations for three seats, one of them checked in:
\* occupancy_rate 66.67 and attendance_rate 50.00.
C22_Witness ==
  \E row \in screening_stats :
    /\ row.capacity = 3
    /\ row.total_reservations = 2
    /\ row.checked_in_count = 1
    /\ row.occupancy_rate = 6667
    /\ row.attendance_rate = 5000

\* ---------------------------------------------------------------- C23
\* C23: every screening has capacity > 0 and, when ends_at is present,
\* ends_at after starts_at; an insert or update whose values break either
\* rule takes no effect, whoever sends it.
C23_ScreeningChecks ==
  /\ \A s \in screenings :
       /\ s.capacity > 0
       /\ s.ends_at # NullNum => s.ends_at > s.starts_at
  /\ \A a \in Users, cap \in CapacityInputs, st \in StartInputs, en \in EndInputs :
       (cap <= 0 \/ (en # NullNum /\ en <= st)) =>
         /\ ~ENABLED InsertScreening(a, "m1", cap, st, en)
         /\ \A id \in ScreeningIds : ~ENABLED UpdateScreening(a, id, "m1", cap, st, en)

\* C23 witness: one screening with an end after its start and one without an
\* end, while a further update to capacity 0 or to an end at the start is
\* refused and a valid one is accepted.
C23_Witness ==
  /\ \E s, t \in screenings :
       /\ s.ends_at = 2 /\ s.starts_at = 1 /\ s.capacity = 1
       /\ t.ends_at = NullNum /\ t.capacity = 3
  /\ ~ENABLED UpdateScreening("ana", "s1", "m1", 0, 1, NullNum)
  /\ ~ENABLED UpdateScreening("ana", "s1", "m1", 2, 2, 2)
  /\ ENABLED UpdateScreening("ana", "s1", "m1", 2, 1, 2)

\* ---------------------------------------------------------------- C25
\* C25: after any sequence of validations and reservation edits a
\* reservation has status checked_in if and only if it has an attendance log,
\* so that for every screening the checked_in_count of screening_stats is
\* the number of attendance_logs rows of that screening's reservations.
C25_CheckedInIffLogged ==
  /\ \A r \in reservations : r.status = "checked_in" <=> LogsOf(r.id) # {}
  /\ \A row \in screening_stats :
       row.checked_in_count =
         Cardinality(LogsOfAll({r.id : r \in ReservationsOf({row.screening_id})}))

\* ---------------------------------------------------------------- C26
\* C26: a step of validate_reservation_qr other than the return with
\* is_valid = true leaves reservations and attendance_logs as they are; a
\* call that returns is_valid = false has taken no other step, so it has
\* written neither table.
C26_InvalidCallsWriteNothing ==
  [][\A c \in Calls :
       (/\ calls'[c].pc # calls[c].pc
        /\ ~(calls'[c].pc = "returned" /\ calls'[c].v_result.is_valid))
         => UNCHANGED <<reservations, attendance_logs>>]_vars

\* C26 witness: after the call that checked the reservation in, a second
\* call with the same code has returned "already validated", is_valid = false,
\* and the row and its log are still as the first call left them.
C26_Witness ==
  \E c, d \in Calls, r \in reservations :
    /\ Returned(d) /\ calls[d].v_result.is_valid
    /\ Returned(c) /\ ~calls[c].v_result.is_valid
    /\ calls[c].v_result.message = MsgAlreadyValidated
    /\ calls[c].v_result.reservation_id = r.id
    /\ r.status = "checked_in"
    /\ Cardinality(LogsOf(r.id)) = 1

\* ---------------------------------------------------------------- C27
\* C27: after any sequence of reservation creates, updates and deletes the
\* reservations of a screening that are not cancelled are at most as many as
\* its capacity, and its occupancy_rate is at most 100.
C27_WithinCapacity ==
  \A row \in screening_stats :
    /\ Cardinality({r \in ReservationsOf({row.screening_id}) : r.status # "cancelled"})
         <= row.capacity
    /\ row.occupancy_rate <= 10000

\* ---------------------------------------------------------------- C24
\* C24: after every successful create, update or remove through a data hook
\* the hook's list is the backend's rows as a fresh select returns them to
\* the hook's user (the list is reloaded, not patched with the record).
C24_ListReloadedAfterMutation ==
  [][(HookMutation /\ hook'.result.error = NullRef)
       => hook'.list = VisibleRows(hook.table, hook.user)']_vars

\* ---------------------------------------------------------------- C29
\* C29: a create, update or remove of a hook whose result carries an error
\* carries no data and leaves the hook's list as it was, a statement the
\* backend does not admit gives such a result and changes no table, and the
\* list changes in such an operation only when the result carries no error.
C29_ErrorsAreValues ==
  [][HookMutation =>
       /\ hook'.result.op \in {"create", "update", "remove"}
       /\ hook'.result.error # NullRef =>
            /\ hook'.result.data = {}
            /\ hook'.list = hook.list
       /\ hook'.list # hook.list => hook'.result.error = NullRef
       /\ (hook'.result.op \in {"create", "update"} /\ hook'.result.error = NullRef)
            => /\ Cardinality(hook'.result.data) = 1
               /\ hook'.result.data \subseteq VisibleRows(hook.table, hook.user)'
       /\ \A active \in BOOLEAN :
            (useMovies_create(active) /\ ~ENABLED InsertMovieStmt(hook.user, active))
              => (hook'.result.error # NullRef /\ UNCHANGED backend)
       /\ \A input \in CreateInputs :
            (/\ useReservations_create(input)
             /\ ~ENABLED InsertReservationStmt(hook.user, input.screening_id, input.user_id,
                                               OrElse(input.status, "confirmed"), NullRef))
              => (hook'.result.error # NullRef /\ UNCHANGED backend)]_vars

\* C29 witness: the student's hook of movies holds nothing and its last
\* create was refused, or a second booking of the same seat through the
\* hook of reservations was refused while the list keeps the first one.
C29_Witness ==
  /\ hook.result.op = "create"
  /\ hook.result.error = MsgRejected
  /\ hook.result.data = {}
  /\ \/ hook.table = "movies" /\ hook.user = "sam" /\ Cardinality(movies) = 1
     \/ /\ hook.table = "reservations"
        /\ Cardinality(hook.list) = 1
        /\ hook.list = reservations

\* ---------------------------------------------------------------- C30
\* C30: useReservations.update changes at most the row with the given id,
\* and in it only status and seat_label, each to the value of the input when
\* that is defined; screening_id, user_id and qr_token, and a column whose
\* input is undefined, keep their stored values.
C30_UpdateSendsDefinedFields ==
  [][\A id \in ResIds, input \in UpdateInputs :
       useReservations_update(id, input) =>
         /\ {r.id : r \in reservations'} = {r.id : r \in reservations}
         /\ \A r \in reservations :
              \/ r \in reservations'
              \/ /\ r.id = id
                 /\ [r EXCEPT !.status = IF input.status = Undefined THEN @ ELSE input.status,
                              !.seat_label = IF input.seat_label = Undefined
                                               THEN @ ELSE input.seat_label]
                      \in reservations']_vars

\* C30 witness: an update that carried a seat label and no status has given
\* the pending reservation its seat and left it pending.
C30_Witness ==
  /\ hook.table = "reservations"
  /\ hook.result.op = "update"
  /\ hook.result.error = NullRef
  /\ \E r \in reservations :
       /\ hook.result.data = {r}
       /\ r.status = "pending"
       /\ r.seat_label = "A1"
       /\ r.qr_token = GenToken(r.id)

\* ---------------------------------------------------------------- C28
\* C28: the page sends no call for a token that is empty after trimming or
\* that is the token sent last, less than 4000 ms ago, and processing is
\* true for as long as a call it has sent is pending or its result is being
\* handled.
C28_DedupedAndFlagged ==
  /\ page.repeats = 0
  /\ page.inflight # {} => page.state.processing

====
